---- MODULE Spec2Model ----
(***************************************************************************)
(* Rawdah admin page (RawdahAdminPage): upload of a slot sheet, expansion  *)
(* of the recurring slots over a date range, conflict count, capacity      *)
(* totals, CSV serialisation.                                              *)
(*                                                                         *)
(* Representation.                                                         *)
(*  - A JS Date is an instant: whole hours since 1970-01-01T00:00Z.        *)
(*  - An ISO date string "YYYY-MM-DD" is the number of its calendar day    *)
(*    (days since 1970-01-01); the empty string "" of an unset date input  *)
(*    is NoDate.  Equality and order of the strings are those of the       *)
(*    day numbers.                                                         *)
(*  - tz is the offset of the browser's local time from UTC in hours       *)
(*    (local = UTC + tz).  It is fixed during a session; daylight-saving   *)
(*    changes are not modelled.                                            *)
(*  - A JS number is an integer, or NaN.                                   *)
(*  - A CSV text is a sequence of one-character strings.                   *)
(*  - An effect (useEffect) runs within the step of the handler whose      *)
(*    state change triggers it.                                            *)
(*  - overtaken is a history variable, not state of the page: for each     *)
(*    waiting Validate call, whether a call started after it has already   *)
(*    completed successfully.  No action reads it.                         *)
(***************************************************************************)
EXTENDS Integers, Sequences, FiniteSets, TLC

VARIABLES fromDate, toDate, excelFile, loading, imported, bookings,
          appliedDates, pending, lastAlert, tz, csvRows, csvOut,
          overtaken, filterDay, filterGender, filterDate, capPage, bookPage

vars == <<fromDate, toDate, excelFile, loading, imported, bookings,
          appliedDates, pending, lastAlert, tz, csvRows, csvOut,
          overtaken, filterDay, filterGender, filterDate, capPage, bookPage>>

uiVars == <<fromDate, toDate, excelFile, loading, imported, bookings,
            appliedDates, pending, lastAlert, tz, overtaken,
            filterDay, filterGender, filterDate, capPage, bookPage>>

csvVars == <<csvRows, csvOut>>

filterVars == <<filterDay, filterGender, filterDate>>

pageVars == <<filterVars, capPage, bookPage>>

-----------------------------------------------------------------------------
(* Bounds of the model. *)

\* rows of a generated sheet
MaxRows == 2
\* calendar days the date inputs range over
MaxDays == 3
\* Validate calls awaiting their file at one time
MaxInFlight == 2
\* length of a generated CSV field text
MaxFieldLen == 3
\* rows handed to buildCSV
MaxCsvRows == 2
\* pages the largest uploaded sheet fills in a table
MaxPages == 2

-----------------------------------------------------------------------------
(* Helpers (lines 21-29). *)

WEEKDAYS == <<"Sunday", "Monday", "Tuesday", "Wednesday", "Thursday", "Friday", "Saturday", "All">>

GENDERS == <<"Men", "Women">>

\* the value "" of an unset date input
NoDate == -1

\* Number(x) of something that is not numeric
NaN == -999

\* a + b on JS numbers
JsAdd(a, b) == IF a = NaN \/ b = NaN THEN NaN ELSE a + b

\* a > 0 on JS numbers (false for NaN)
JsPositive(a) == a # NaN /\ a > 0

\* Number(cell) of a sheet cell: "" is 0, a numeral its value, any other text NaN
Number(cell) ==
  CASE cell = ""  -> 0
    [] cell = "0" -> 0
    [] cell = "1" -> 1
    [] cell = "2" -> 2
    [] cell = "3" -> 3
    [] cell = "5" -> 5
    [] cell = "10" -> 10
    [] OTHER -> NaN

\* new Date(iso + "T00:00:00"): local midnight of that calendar day
LocalMidnight(iso) == iso * 24 - tz

\* d.toISOString().slice(0,10): the UTC calendar day of the instant
fmtDate(d) == d \div 24

\* d.getDay(): day of week of the instant in local time, 0 = Sunday
\* (1970-01-01 was a Thursday)
getDay(d) == (((d + tz) \div 24) + 4) % 7

weekdayName(d) == WEEKDAYS[getDay(d) + 1]

\* d.setDate(d.getDate()+1): the same local time on the next local day
NextDay(d) == d + 24

dateRange_doWhile(from, to) ==
  LET RECURSIVE go(_)
      go(d) == <<d>> \o (IF NextDay(d) <= to THEN go(NextDay(d)) ELSE <<>>)
  IN go(from)

\* the instants a for-of over dateRange(from, to) sees, in order
dateRange(from, to) ==
  LET RECURSIVE go(_)
      go(d) == IF d <= to THEN <<d>> \o go(NextDay(d)) ELSE <<>>
  IN go(from)

-----------------------------------------------------------------------------
(* Types (lines 54-57) and the uploaded workbook.                          *)
(*                                                                         *)
(* A file is what excelFile.arrayBuffer() and XLSX.read make of it:        *)
(*   kind "unreadable"  arrayBuffer() rejects                              *)
(*   kind "corrupt"     XLSX.read throws                                   *)
(*   kind "ok"          a first sheet with the columns `headers` and the   *)
(*                      data rows `rows` (sheet_to_json with defval "":    *)
(*                      every row object has one key per column)           *)
(*   kind "none"        no file chosen (excelFile is null)                 *)
(* A cell is its text; a numeric cell is its numeral.                      *)

required == {"Slot_ID", "Start_Time", "End_Time", "Day", "Gender", "Capacity"}

NoFile == [kind |-> "none", headers |-> {}, rows |-> <<>>]

Sheet(headers, rows) == [kind |-> "ok", headers |-> headers, rows |-> rows]

RawRow(id, day, gender, cap) ==
  [Slot_ID |-> id, Start_Time |-> "09:00", End_Time |-> "10:00",
   Day |-> day, Gender |-> gender, Capacity |-> cap]

\* ExpandedRow: { ...r, Date: fmtDate(d) }
WithDate(r, date) ==
  [Slot_ID |-> r.Slot_ID, Start_Time |-> r.Start_Time, End_Time |-> r.End_Time,
   Day |-> r.Day, Gender |-> r.Gender, Capacity |-> r.Capacity, Date |-> date]

\* the SlotRow an ExpandedRow was made of
WithoutDate(r) ==
  [Slot_ID |-> r.Slot_ID, Start_Time |-> r.Start_Time, End_Time |-> r.End_Time,
   Day |-> r.Day, Gender |-> r.Gender, Capacity |-> r.Capacity]

-----------------------------------------------------------------------------
(* handleValidatePreview (lines 119-152): the pure steps. *)

\* required.every(h => Object.keys(rows[0]||{}).includes(h))
headerOk(file) == file.rows # <<>> /\ required \subseteq file.headers

\* Number(r.Capacity||0): "" and 0 are falsy
NumberOrZero(cell) == IF cell = "" \/ cell = "0" THEN Number("0") ELSE Number(cell)

\* rows.map(r => ({ Slot_ID: Number(r.Slot_ID), ..., Capacity: Number(r.Capacity||0) }))
norm(rows) ==
  [i \in 1..Len(rows) |->
     [Slot_ID |-> Number(rows[i].Slot_ID), Start_Time |-> rows[i].Start_Time,
      End_Time |-> rows[i].End_Time, Day |-> rows[i].Day,
      Gender |-> rows[i].Gender, Capacity |-> NumberOrZero(rows[i].Capacity)]]

\* r.Day === "All" || r.Day === wd
dayMatches(r, wd) == r.Day = "All" \/ r.Day = wd

\* the inner loop of lines 139-140 for one date d
expandDate(rows, d) ==
  LET sel == SelectSeq(rows, LAMBDA r : dayMatches(r, weekdayName(d)))
  IN  [i \in 1..Len(sel) |-> WithDate(sel[i], fmtDate(d))]

expand_templateMajor(rows, from, to) ==
  LET days == dateRange(LocalMidnight(from), LocalMidnight(to))
      RECURSIVE overRows(_)
      overRows(i) ==
        IF i > Len(rows) THEN <<>>
        ELSE LET RECURSIVE overDays(_)
                 overDays(k) == IF k > Len(days) THEN <<>>
                                ELSE expandDate(<<rows[i]>>, days[k]) \o overDays(k + 1)
             IN overDays(1) \o overRows(i + 1)
  IN overRows(1)

\* lines 135-141: from, to the ISO strings of the date inputs
expand(rows, from, to) ==
  LET days == dateRange(LocalMidnight(from), LocalMidnight(to))
      RECURSIVE go(_)
      go(k) == IF k > Len(days) THEN <<>> ELSE expandDate(rows, days[k]) \o go(k + 1)
  IN go(1)

\* the key `${r.Date}|${r.Slot_ID}`: a date string holds no "|" and has a
\* fixed length, so two keys are equal exactly when both parts are; every
\* NaN prints as "NaN"
conflictKey(r) == <<r.Date, r.Slot_ID>>

conflictsOf_noCapacityTest(rows) ==
  LET RECURSIVE go(_, _)
      go(k, acc) ==
        IF k > Len(rows) THEN acc
        ELSE LET r == rows[k]
                 key == conflictKey(r)
                 old == IF key \in DOMAIN acc THEN acc[key] ELSE [men |-> 0, women |-> 0]
                 new == [men   |-> old.men + (IF r.Gender = "Men" THEN 1 ELSE 0),
                         women |-> old.women + (IF r.Gender = "Women" THEN 1 ELSE 0)]
             IN go(k + 1, [x \in DOMAIN acc \cup {key} |-> IF x = key THEN new ELSE acc[x]])
  IN go(1, <<>>)

\* line 145: the record `conflicts` after the loop
conflictsOf(rows) ==
  LET RECURSIVE go(_, _)
      go(k, acc) ==
        IF k > Len(rows) THEN acc
        ELSE LET r == rows[k]
                 key == conflictKey(r)
                 old == IF key \in DOMAIN acc THEN acc[key] ELSE [men |-> 0, women |-> 0]
                 pos == IF JsPositive(r.Capacity) THEN 1 ELSE 0
                 new == [men   |-> old.men + (IF r.Gender = "Men" THEN pos ELSE 0),
                         women |-> old.women + (IF r.Gender = "Women" THEN pos ELSE 0)]
             IN go(k + 1, [x \in DOMAIN acc \cup {key} |-> IF x = key THEN new ELSE acc[x]])
  IN go(1, <<>>)

\* line 146: Object.entries(conflicts).filter(([,v]) => v.men>0 && v.women>0)
bad(rows) ==
  LET c == conflictsOf(rows) IN {k \in DOMAIN c : c[k].men > 0 /\ c[k].women > 0}

-----------------------------------------------------------------------------
(* Widgets (lines 170-175). *)

totalsOf(rows, books) ==
  LET RECURSIVE go(_, _)
      go(k, t) ==
        IF k > Len(rows) THEN t
        ELSE go(k + 1,
                [total |-> JsAdd(t.total, rows[k].Capacity),
                 men   |-> IF rows[k].Gender = "Men" THEN JsAdd(t.men, rows[k].Capacity) ELSE t.men,
                 women |-> IF rows[k].Gender = "Men" THEN t.women ELSE JsAdd(t.women, rows[k].Capacity),
                 booked |-> t.booked])
      RECURSIVE sumBooked(_)
      sumBooked(k) ==
        IF k > Len(books) THEN 0
        ELSE (IF books[k].Status # "Cancelled" THEN books[k].Seats_Booked ELSE 0) + sumBooked(k + 1)
  IN go(1, [total |-> 0, men |-> 0, women |-> 0, booked |-> sumBooked(1)])

\* the memoised value the widgets show
totals == totalsOf(imported, bookings)

-----------------------------------------------------------------------------
(* buildCSV (lines 31-43).                                                 *)
(*                                                                         *)
(* A row object is the sequence of its <<key, value>> pairs in insertion   *)
(* order (the order of Object.keys for keys that are not array indices).   *)
(* A value is null, a number or a string; a key and a text are sequences   *)
(* of one-character strings.                                               *)

Null == [t |-> "null", n |-> 0, s |-> <<>>]

Num(n) == [t |-> "num", n |-> n, s |-> <<>>]

Str(s) == [t |-> "str", n |-> 0, s |-> s]

Digits == <<"0", "1", "2", "3", "4", "5", "6", "7", "8", "9">>

\* String(n) of a non-negative integer
RECURSIVE Decimal(_)
Decimal(n) == IF n < 10 THEN <<Digits[n + 1]>> ELSE Append(Decimal(n \div 10), Digits[(n % 10) + 1])

\* String(val ?? "")
StringOf(val) ==
  CASE val.t = "null" -> <<>>
    [] val.t = "num"  -> Decimal(val.n)
    [] OTHER          -> val.s

\* Object.keys(row)
Keys(row) == [i \in 1..Len(row) |-> row[i][1]]

\* row[h]: the value under key h, undefined (here Null) when the key is absent
Get(row, h) ==
  IF \E i \in 1..Len(row) : row[i][1] = h
  THEN row[CHOOSE i \in 1..Len(row) : row[i][1] = h][2]
  ELSE Null

\* /[",\n\r]/.test(s)
needsQuotes(s) == \E i \in 1..Len(s) : s[i] \in {"\"", ",", "\n", "\r"}

\* s.replaceAll('"', '""')
RECURSIVE doubleQuotes(_)
doubleQuotes(s) ==
  IF s = <<>> THEN <<>>
  ELSE (IF Head(s) = "\"" THEN <<"\"", "\"">> ELSE <<Head(s)>>) \o doubleQuotes(Tail(s))

esc_noCarriageReturn(val) ==
  LET s == StringOf(val)
  IN  IF \E i \in 1..Len(s) : s[i] \in {"\"", ",", "\n"}
      THEN <<"\"">> \o doubleQuotes(s) \o <<"\"">> ELSE s

\* lines 35-39
esc(val) ==
  LET s == StringOf(val)
  IN  IF needsQuotes(s) THEN <<"\"">> \o doubleQuotes(s) \o <<"\"">> ELSE s

\* parts.join(sep), sep one character
RECURSIVE Join(_, _)
Join(parts, sep) ==
  IF parts = <<>> THEN <<>>
  ELSE IF Len(parts) = 1 THEN parts[1]
  ELSE parts[1] \o <<sep>> \o Join(Tail(parts), sep)

buildCSV_ownKeys(rows) ==
  IF Len(rows) = 0 THEN <<>>
  ELSE LET headers == Keys(rows[1])
           line(r) == Join([j \in 1..Len(r) |-> esc(r[j][2])], ",")
       IN  Join(<<Join(headers, ",")>> \o [k \in 1..Len(rows) |-> line(rows[k])], "\n")

\* lines 32-43
buildCSV(rows) ==
  IF Len(rows) = 0 THEN <<>>
  ELSE LET headers == Keys(rows[1])
           line(r) == Join([j \in 1..Len(headers) |-> esc(Get(r, headers[j]))], ",")
       IN  Join(<<Join(headers, ",")>> \o [k \in 1..Len(rows) |-> line(rows[k])], "\n")

\* no text built yet
NoCsv == [done |-> FALSE, text |-> <<>>]

\* a caller (downloadCSV, the unit test of lines 92-116) builds the text of csvRows
callBuildCSV ==
  /\ ~csvOut.done
  /\ csvOut' = [done |-> TRUE, text |-> buildCSV(csvRows)]
  /\ UNCHANGED <<uiVars, csvRows>>

-----------------------------------------------------------------------------
(* Filters and paging of the two tables (lines 74-83, 178-185). *)

PAGE_SIZE == 20

Max(a, b) == IF a >= b THEN a ELSE b

Min(a, b) == IF a <= b THEN a ELSE b

\* Math.ceil(n / d) of a count n >= 0 and d > 0
Ceil(n, d) == (n + d - 1) \div d

\* s.slice(start, end) for 0 <= start <= end
slice(s, start, end) == SubSeq(s, start + 1, Min(end, Len(s)))

\* line 178; an unset filter is "" (NoDate for the date input) and is falsy
capacitiesView ==
  SelectSeq(imported, LAMBDA r :
     /\ filterDay = "" \/ r.Day = filterDay
     /\ filterGender = "" \/ r.Gender = filterGender
     /\ filterDate = NoDate \/ r.Date = filterDate)

capTotal == Len(capacitiesView)

capPages_noMax == Ceil(capTotal, PAGE_SIZE)

capPages == Max(1, Ceil(capTotal, PAGE_SIZE))

capStart == (capPage - 1) * PAGE_SIZE

capEnd == capStart + PAGE_SIZE

capRows == slice(capacitiesView, capStart, capEnd)

bookTotal == Len(bookings)

bookPages == Max(1, Ceil(bookTotal, PAGE_SIZE))

bookStart == (bookPage - 1) * PAGE_SIZE

bookEnd == bookStart + PAGE_SIZE

bookRows == slice(bookings, bookStart, bookEnd)

resetCapPage_never == UNCHANGED capPage

\* line 82: the effect that runs after a render in which imported or a filter
\* has changed
resetCapPage == capPage' = 1

\* line 83: the effect that runs after a render in which bookings has changed
resetBookPage == bookPage' = 1

-----------------------------------------------------------------------------
(* The page's state (lines 61-87) and its handlers. *)

\* the text of the last alert(): its kind and the numbers it shows
Alert(kind, rows, conflicts) == [kind |-> kind, rows |-> rows, conflicts |-> conflicts]

NoAlert == Alert("none", 0, 0)

\* what a running handleValidatePreview holds on to across its await
Closure(file, from, to) == [file |-> file, from |-> from, to |-> to]

RemoveAt(s, i) == [k \in 1..(Len(s) - 1) |-> IF k < i THEN s[k] ELSE s[k + 1]]

\* lines 119-123: the click on Validate, up to the await; at most `cap`
\* calls are kept waiting
handleValidatePreview(cap) ==
  \/ /\ excelFile = NoFile \/ fromDate = NoDate \/ toDate = NoDate
     /\ lastAlert' = Alert("select", 0, 0)
     /\ UNCHANGED <<fromDate, toDate, excelFile, loading, imported, bookings,
                    appliedDates, pending, tz, csvVars, overtaken, pageVars>>
  \/ /\ excelFile # NoFile /\ fromDate # NoDate /\ toDate # NoDate
     /\ Len(pending) < cap
     /\ loading' = TRUE
     /\ pending' = Append(pending, Closure(excelFile, fromDate, toDate))
     /\ overtaken' = Append(overtaken, FALSE)
     /\ UNCHANGED <<fromDate, toDate, excelFile, imported, bookings,
                    appliedDates, lastAlert, tz, csvVars, pageVars>>

\* lines 123-129: arrayBuffer() rejects, XLSX.read throws or a header is missing
throws(file) == file.kind # "ok" \/ ~headerOk(file)

\* lines 123-151: the file of the i-th waiting call arrives and the call
\* runs to its end
resumeValidatePreview(i) ==
  LET c == pending[i] IN
  /\ pending' = RemoveAt(pending, i)
  /\ overtaken' = RemoveAt([k \in 1..Len(pending) |->
                               overtaken[k] \/ (k < i /\ ~throws(c.file))], i)
  /\ \/ /\ throws(c.file)
        /\ lastAlert' = Alert("error", 0, 0)
        /\ UNCHANGED <<imported, capPage>>
     \/ /\ ~throws(c.file)
        /\ LET expanded == expand(norm(c.file.rows), c.from, c.to) IN
           /\ imported' = expanded
           /\ lastAlert' = Alert("preview", Len(expanded), Cardinality(bad(expanded)))
        /\ resetCapPage
  /\ loading' = FALSE
  /\ UNCHANGED <<fromDate, toDate, excelFile, bookings, appliedDates, tz, csvVars,
                 filterVars, bookPage>>

\* lines 154-160: appliedDates after addRangeToApplied(from, to)
addRangeToApplied(from, to) ==
  LET days == dateRange(LocalMidnight(from), LocalMidnight(to))
  IN  appliedDates \cup {fmtDate(days[k]) : k \in 1..Len(days)}

\* lines 162-167: the click on Import
handleImport ==
  /\ \/ /\ Len(imported) = 0
        /\ lastAlert' = Alert("runfirst", 0, 0)
        /\ UNCHANGED appliedDates
     \/ /\ Len(imported) # 0
        /\ appliedDates' = IF fromDate # NoDate /\ toDate # NoDate
                           THEN addRangeToApplied(fromDate, toDate) ELSE appliedDates
        /\ lastAlert' = Alert("imported", Len(imported), 0)
  /\ UNCHANGED <<fromDate, toDate, excelFile, loading, imported, bookings, pending, tz,
                 csvVars, overtaken, pageVars>>

\* line 274: the click on Reset; clearing the file input's value does not
\* fire its onChange, so excelFile keeps the chosen file; imported and
\* bookings get new arrays, so both page effects run
Reset ==
  /\ imported' = <<>>
  /\ bookings' = <<>>
  /\ fromDate' = NoDate
  /\ toDate' = NoDate
  /\ resetCapPage
  /\ resetBookPage
  /\ UNCHANGED <<excelFile, loading, appliedDates, pending, lastAlert, tz, csvVars,
                 overtaken, filterVars>>

\* lines 277-279: the date and file inputs
setFromDate(d) ==
  /\ fromDate' = d
  /\ UNCHANGED <<toDate, excelFile, loading, imported, bookings, appliedDates,
                 pending, lastAlert, tz, csvVars, overtaken, pageVars>>

setToDate(d) ==
  /\ toDate' = d
  /\ UNCHANGED <<fromDate, excelFile, loading, imported, bookings, appliedDates,
                 pending, lastAlert, tz, csvVars, overtaken, pageVars>>

setExcelFile(f) ==
  /\ excelFile' = f
  /\ UNCHANGED <<fromDate, toDate, loading, imported, bookings, appliedDates,
                 pending, lastAlert, tz, csvVars, overtaken, pageVars>>

\* line 231: the Status of the i-th mock booking
mockStatus(i) == IF i % 13 = 0 THEN "Cancelled" ELSE IF i % 7 = 0 THEN "Checked-in" ELSE "Booked"

\* lines 212-236: the sample built from the rows of imported; draw[k] is what
\* Math.random() gives for the k-th row: 0 when the row is skipped (a value
\* under 0.08), else the seats 1..4.  The pilgrim fields are functions of
\* Booking_ID and are left out, as is Created_At.
mockSample(draw) ==
  LET pick == SubSeq(imported, 1, IF Len(imported) < 400 THEN Len(imported) ELSE 400)
      RECURSIVE go(_, _, _)
      go(k, i, sample) ==
        IF k > Len(pick) THEN sample
        ELSE LET r == pick[k] IN
             IF r.Capacity # NaN /\ r.Capacity <= 0 THEN go(k + 1, i, sample)
             ELSE IF draw[k] = 0 THEN go(k + 1, i, sample)
             ELSE LET b == [Booking_ID |-> i, Date |-> r.Date, Slot_ID |-> r.Slot_ID,
                            Start_Time |-> r.Start_Time, End_Time |-> r.End_Time,
                            Gender |-> r.Gender, Seats_Booked |-> draw[k],
                            Status |-> mockStatus(i)]
                  IN  IF Len(sample) + 1 > 200 THEN Append(sample, b)
                      ELSE go(k + 1, i + 1, Append(sample, b))
  IN go(1, 1, <<>>)

\* lines 210-238: the click on Load Mock
loadMockBookings(draws) ==
  /\ \/ /\ Len(imported) = 0
        /\ lastAlert' = Alert("importfirst", 0, 0)
        /\ UNCHANGED <<bookings, bookPage>>
     \/ /\ Len(imported) # 0
        /\ \E draw \in [1..Len(imported) -> draws] : bookings' = mockSample(draw)
        /\ resetBookPage
        /\ UNCHANGED lastAlert
  /\ UNCHANGED <<fromDate, toDate, excelFile, loading, imported, appliedDates, pending, tz,
                 csvVars, overtaken, filterVars, capPage>>

\* lines 331-333: the filter inputs; onChange fires when the value changes
setFilterDay(v) ==
  /\ v # filterDay
  /\ filterDay' = v
  /\ resetCapPage
  /\ UNCHANGED <<fromDate, toDate, excelFile, loading, imported, bookings, appliedDates,
                 pending, lastAlert, tz, csvVars, overtaken, filterGender, filterDate, bookPage>>

setFilterGender(v) ==
  /\ v # filterGender
  /\ filterGender' = v
  /\ resetCapPage
  /\ UNCHANGED <<fromDate, toDate, excelFile, loading, imported, bookings, appliedDates,
                 pending, lastAlert, tz, csvVars, overtaken, filterDay, filterDate, bookPage>>

setFilterDate(v) ==
  /\ v # filterDate
  /\ filterDate' = v
  /\ resetCapPage
  /\ UNCHANGED <<fromDate, toDate, excelFile, loading, imported, bookings, appliedDates,
                 pending, lastAlert, tz, csvVars, overtaken, filterDay, filterGender, bookPage>>

\* line 334: the click on Clear Filters; the effect runs when a filter was set
clearFilters ==
  /\ filterDay' = ""
  /\ filterGender' = ""
  /\ filterDate' = NoDate
  /\ IF filterVars # <<"", "", NoDate>> THEN resetCapPage ELSE UNCHANGED capPage
  /\ UNCHANGED <<fromDate, toDate, excelFile, loading, imported, bookings, appliedDates,
                 pending, lastAlert, tz, csvVars, overtaken, bookPage>>

\* lines 343-345: Prev and Next of the capacities table; a disabled button
\* takes no click
capPrev ==
  /\ capPage # 1
  /\ capPage' = Max(1, capPage - 1)
  /\ UNCHANGED <<fromDate, toDate, excelFile, loading, imported, bookings, appliedDates,
                 pending, lastAlert, tz, csvVars, overtaken, filterVars, bookPage>>

capNext ==
  /\ capPage # capPages
  /\ capPage' = Min(capPages, capPage + 1)
  /\ UNCHANGED <<fromDate, toDate, excelFile, loading, imported, bookings, appliedDates,
                 pending, lastAlert, tz, csvVars, overtaken, filterVars, bookPage>>

\* lines 366-368: Prev and Next of the bookings table
bookPrev ==
  /\ bookPage # 1
  /\ bookPage' = Max(1, bookPage - 1)
  /\ UNCHANGED <<fromDate, toDate, excelFile, loading, imported, bookings, appliedDates,
                 pending, lastAlert, tz, csvVars, overtaken, filterVars, capPage>>

bookNext ==
  /\ bookPage # bookPages
  /\ bookPage' = Min(bookPages, bookPage + 1)
  /\ UNCHANGED <<fromDate, toDate, excelFile, loading, imported, bookings, appliedDates,
                 pending, lastAlert, tz, csvVars, overtaken, filterVars, capPage>>

-----------------------------------------------------------------------------
(* The inputs the model draws. *)

\* the calendar days 1970-01-03 (a Saturday), 1970-01-04, ...
Dates == 2..(MaxDays + 1)

\* UTC-5, UTC, UTC+3
TzOffsets == {-5, 0, 3}

SeqsUpTo(S, n) == UNION {[1..k -> S] : k \in 0..n}

\* Men and Women rows of capacity 0 or 2, rows of another gender of capacity 2
GenRows ==
  {RawRow(id, day, gc[1], gc[2]) :
     id \in {"1", "2"}, day \in {"All", "Sunday"},
     gc \in ({"Men", "Women"} \X {"0", "2"}) \cup {<<"Other", "2">>}}

GenSheets == {Sheet(required, rows) : rows \in SeqsUpTo(GenRows, MaxRows)}

BadFiles ==
  {[kind |-> "unreadable", headers |-> {}, rows |-> <<>>],
   [kind |-> "corrupt", headers |-> {}, rows |-> <<>>],
   Sheet(required \ {"Capacity"}, <<RawRow("1", "All", "Men", "")>>)}

-----------------------------------------------------------------------------
(* SpecExpand: one sheet, one date range and one time zone, validated one  *)
(* call at a time.                                                         *)

InitExpand ==
  /\ excelFile \in GenSheets \cup BadFiles
  /\ \E range \in (Dates \X Dates) \cup {<<NoDate, NoDate>>} :
        fromDate = range[1] /\ toDate = range[2]
  /\ tz \in TzOffsets
  /\ loading = FALSE
  /\ imported = <<>>
  /\ bookings = <<>>
  /\ appliedDates = {}
  /\ pending = <<>>
  /\ overtaken = <<>>
  /\ filterDay = ""
  /\ filterGender = ""
  /\ filterDate = NoDate
  /\ capPage = 1
  /\ bookPage = 1
  /\ lastAlert = NoAlert
  /\ csvRows = <<>>
  /\ csvOut = NoCsv

NextExpand ==
  \/ handleValidatePreview(1)
  \/ \E i \in 1..Len(pending) : resumeValidatePreview(i)

SpecExpand == InitExpand /\ [][NextExpand]_vars

-----------------------------------------------------------------------------
(* Spec: a session of the page.  The operator edits the inputs, clicks     *)
(* Validate, Import, Load Mock and Reset in any order, and the files of    *)
(* the waiting Validate calls arrive in any order.                         *)

\* From is 1970-01-03 (a Saturday) or 1970-01-04 (a Sunday), To is 1970-01-04
UiFromDates == {2, 3}

UiToDates == {3}

GoodSheet == Sheet(required, <<RawRow("1", "All", "Men", "2")>>)

UiFiles ==
  {GoodSheet,
   Sheet(required \ {"Capacity"}, <<RawRow("1", "All", "Men", "")>>),
   [kind |-> "corrupt", headers |-> {}, rows |-> <<>>]}

\* the page runs in UTC or in UTC+3 (Asia/Riyadh)
UiTzOffsets == {0, 3}

\* what Math.random() is taken to give for a row: skipped, or one seat
MockDraws == {0, 1}

Init ==
  /\ tz \in UiTzOffsets
  /\ fromDate = NoDate
  /\ toDate = NoDate
  /\ excelFile = NoFile
  /\ loading = FALSE
  /\ imported = <<>>
  /\ bookings = <<>>
  /\ appliedDates = {}
  /\ pending = <<>>
  /\ overtaken = <<>>
  /\ filterDay = ""
  /\ filterGender = ""
  /\ filterDate = NoDate
  /\ capPage = 1
  /\ bookPage = 1
  /\ lastAlert = NoAlert
  /\ csvRows = <<>>
  /\ csvOut = NoCsv

Next ==
  \/ \E d \in UiFromDates \cup {NoDate} : setFromDate(d)
  \/ \E d \in UiToDates \cup {NoDate} : setToDate(d)
  \/ \E f \in UiFiles \cup {NoFile} : setExcelFile(f)
  \/ handleValidatePreview(MaxInFlight)
  \/ \E i \in 1..Len(pending) : resumeValidatePreview(i)
  \/ handleImport
  \/ loadMockBookings(MockDraws)
  \/ Reset

Spec == Init /\ [][Next]_vars

-----------------------------------------------------------------------------
(* SpecCSV: buildCSV applied to one input.  Keys are plain identifiers;    *)
(* the first row has at least one key, as the rows the page exports have.  *)

CsvChars == {"a", ",", "\"", "\n", "\r"}

CsvValues == {Null, Num(10), Str(<<",", "\"">>)}

\* sequences of at most two different keys of S
KeyLists(S) ==
  {<<>>} \cup {<<k>> : k \in S} \cup ({<<k, l>> : k, l \in S} \ {<<k, k>> : k \in S})

RowsOver(S) ==
  UNION {{[i \in 1..Len(kl) |-> <<kl[i], vs[i]>>] : vs \in [1..Len(kl) -> CsvValues]} : kl \in KeyLists(S)}

\* tables whose later rows may lack keys of the first row or hold others
TableInputs ==
  {<<>>} \cup
  {<<f>> \o rest : f \in RowsOver({<<"A">>, <<"B">>}) \ {<<>>},
                   rest \in SeqsUpTo(RowsOver({<<"A">>, <<"B">>, <<"C">>}), MaxCsvRows - 1)}

\* one row { A: text, ID: 7 } for every text of at most MaxFieldLen characters
FieldInputs ==
  {<< << << <<"A">>, Str(t) >>, << <<"I", "D">>, Num(7) >> >> >> : t \in SeqsUpTo(CsvChars, MaxFieldLen)}

InitCSV ==
  /\ csvRows \in TableInputs \cup FieldInputs
  /\ csvOut = NoCsv
  /\ excelFile = NoFile
  /\ fromDate = NoDate
  /\ toDate = NoDate
  /\ tz = 0
  /\ loading = FALSE
  /\ imported = <<>>
  /\ bookings = <<>>
  /\ appliedDates = {}
  /\ pending = <<>>
  /\ overtaken = <<>>
  /\ filterDay = ""
  /\ filterGender = ""
  /\ filterDate = NoDate
  /\ capPage = 1
  /\ bookPage = 1
  /\ lastAlert = NoAlert

NextCSV == callBuildCSV

SpecCSV == InitCSV /\ [][NextCSV]_vars

-----------------------------------------------------------------------------
(* SpecNorm: sheets with the required columns whose Capacity cells are      *)
(* empty, a text that is no numeral, or a numeral; validated one call at a  *)
(* time.                                                                    *)

\* an empty cell (defval ""), the text "x", the number 2
NormCells == {"", "x", "2"}

NormRows ==
  {RawRow("1", "All", g, c) : g \in {"Men", "Women"}, c \in NormCells}

NormSheets == {Sheet(required, rows) : rows \in SeqsUpTo(NormRows, MaxRows) \ {<<>>}}

InitNorm ==
  /\ excelFile \in NormSheets
  /\ \E range \in {<<2, 3>>, <<NoDate, 3>>} : fromDate = range[1] /\ toDate = range[2]
  /\ tz \in UiTzOffsets
  /\ loading = FALSE
  /\ imported = <<>>
  /\ bookings = <<>>
  /\ appliedDates = {}
  /\ pending = <<>>
  /\ overtaken = <<>>
  /\ filterDay = ""
  /\ filterGender = ""
  /\ filterDate = NoDate
  /\ capPage = 1
  /\ bookPage = 1
  /\ lastAlert = NoAlert
  /\ csvRows = <<>>
  /\ csvOut = NoCsv

NextNorm ==
  \/ handleValidatePreview(1)
  \/ \E i \in 1..Len(pending) : resumeValidatePreview(i)

SpecNorm == InitNorm /\ [][NextNorm]_vars

-----------------------------------------------------------------------------
(* SpecPage: a session with sheets that fill one or several pages of the    *)
(* tables.  The operator sets the dates and the file, clicks Validate (one  *)
(* call at a time), Import, Load Mock and Reset, sets and clears the        *)
(* filters and pages through both tables.                                   *)

\* a sheet of n slots of capacity 2, Men and Women in turn; the second slot
\* is held on Sundays only
PageSheet(n) ==
  Sheet(required,
        [i \in 1..n |-> RawRow("1", IF i = 2 THEN "Sunday" ELSE "All",
                               IF i % 2 = 1 THEN "Men" ELSE "Women", "2")])

\* over the two days 1970-01-03 and 1970-01-04 a sheet of n slots expands to
\* 2n-1 rows (n > 1): sheets of 1, PAGE_SIZE/2 + 1, PAGE_SIZE + 1, ... slots
\* fill 1, 2, 3, ... pages
PageSheets ==
  {PageSheet(1)} \cup {PageSheet((k * PAGE_SIZE) \div 2 + 1) : k \in 1..(MaxPages - 1)}

PageFilterDays == {"", "Sunday"}

PageFilterGenders == {"", "Men"}

PageFilterDates == {NoDate, 3}

\* Math.random() never skips a row and always gives one seat
PageDraws == {1}

InitPage ==
  /\ tz = 0
  /\ fromDate = NoDate
  /\ toDate = NoDate
  /\ excelFile = NoFile
  /\ loading = FALSE
  /\ imported = <<>>
  /\ bookings = <<>>
  /\ appliedDates = {}
  /\ pending = <<>>
  /\ overtaken = <<>>
  /\ filterDay = ""
  /\ filterGender = ""
  /\ filterDate = NoDate
  /\ capPage = 1
  /\ bookPage = 1
  /\ lastAlert = NoAlert
  /\ csvRows = <<>>
  /\ csvOut = NoCsv

NextPage ==
  \/ setFromDate(2)
  \/ setToDate(3)
  \/ \E f \in PageSheets : setExcelFile(f)
  \/ handleValidatePreview(1)
  \/ \E i \in 1..Len(pending) : resumeValidatePreview(i)
  \/ handleImport
  \/ loadMockBookings(PageDraws)
  \/ Reset
  \/ \E v \in PageFilterDays : setFilterDay(v)
  \/ \E v \in PageFilterGenders : setFilterGender(v)
  \/ \E v \in PageFilterDates : setFilterDate(v)
  \/ clearFilters
  \/ capPrev
  \/ capNext
  \/ bookPrev
  \/ bookNext

SpecPage == InitPage /\ [][NextPage]_vars

-----------------------------------------------------------------------------
(* Properties of the expansion, stated on the calendar: the weekday of an  *)
(* ISO date string is a fact of the calendar, whatever the time zone.      *)

\* the weekday of the calendar day `iso` (1970-01-01 was a Thursday)
WeekdayOfIso(iso) == WEEKDAYS[((iso + 4) % 7) + 1]

\* the templates of the chosen sheet
Templates == norm(excelFile.rows)

\* a Validate of the chosen sheet and range has run to its successful end
Previewed == lastAlert.kind = "preview"

Matching(t, iso) == {i \in 1..Len(t) : t[i].Day = "All" \/ t[i].Day = WeekdayOfIso(iso)}

RECURSIVE SumOver(_, _)
SumOver(f, S) == IF S = {} THEN 0 ELSE LET x == CHOOSE x \in S : TRUE IN f[x] + SumOver(f, S \ {x})

Occurrences(seq, x) == Cardinality({i \in 1..Len(seq) : seq[i] = x})

\* C1: after a successful Validate with from <= to, imported holds exactly one
\* row per pair (date d of [from, to], template t with t.Day "All" or the
\* weekday of d), identical templates each giving their own row, so the row
\* count is the sum over the dates of the number of matching templates; and
\* every row's Date lies in [from, to].
C1_OneRowPerDateAndTemplate ==
  (Previewed /\ fromDate <= toDate) =>
    LET t == Templates
        range == fromDate..toDate
    IN /\ Len(imported) = SumOver([d \in range |-> Cardinality(Matching(t, d))], range)
       /\ \A d \in range : \A i \in Matching(t, d) :
             Occurrences(imported, WithDate(t[i], d))
               = Cardinality({j \in Matching(t, d) : t[j] = t[i]})
       /\ \A i \in 1..Len(imported) : imported[i].Date \in range

\* C2: every row of imported has Day "All" or the weekday of the calendar
\* date its own Date string names.
C2_RowDayIsWeekdayOfRowDate ==
  \A i \in 1..Len(imported) :
     imported[i].Day = "All" \/ imported[i].Day = WeekdayOfIso(imported[i].Date)

\* the rows of imported dated `date`, without their Date
RowsOfDate(date) ==
  LET sel == SelectSeq(imported, LAMBDA r : r.Date = date)
  IN  [i \in 1..Len(sel) |-> WithoutDate(sel[i])]

C3_DateMajorTemplateMinor ==
  Previewed =>
    /\ \A i, j \in 1..Len(imported) : i < j => imported[i].Date <= imported[j].Date
    /\ \A i \in 1..Len(imported) :
         \E w \in 1..7 :
            RowsOfDate(imported[i].Date)
              = SelectSeq(Templates, LAMBDA r : r.Day = "All" \/ r.Day = WEEKDAYS[w])

C3_SecondRunGivesTheSame ==
  (Previewed /\ lastAlert'.kind = "preview") => imported' = imported

\* C3: the rows of imported are date-major and template-minor: their dates
\* never decrease, and the rows of one date are the templates matching one
\* weekday, in the order of the sheet; a second successful Validate of the
\* same inputs leaves the same sequence.
C3_StableOrder == [](C3_DateMajorTemplateMinor) /\ [][C3_SecondRunGivesTheSame]_vars

C3_Witness ==
  /\ Previewed /\ Len(imported) >= 4
  /\ imported[1].Date = imported[2].Date /\ imported[1] # imported[2]
  /\ imported[1].Date < imported[Len(imported)].Date

\* a readable sheet with the six headers and at least one data row
ValidSheet(file) == file.kind = "ok" /\ required \subseteq file.headers /\ Len(file.rows) > 0

\* C4: a Validate of a valid sheet with from > to ends on the success path
\* with zero rows: its message is the preview of 0 rows, never an error, and
\* imported is empty.
C4_ReversedRangeIsEmpty ==
  (lastAlert.kind \in {"preview", "error"} /\ ValidSheet(excelFile) /\ fromDate > toDate) =>
     /\ lastAlert = Alert("preview", 0, 0)
     /\ imported = <<>>

C4_Witness ==
  /\ Previewed /\ fromDate > toDate /\ ~loading
  /\ \E i \in 1..Len(excelFile.rows) : excelFile.rows[i].Day = "All"

\* the (Date, Slot_ID) groups of imported holding a Men row and a Women row
\* of capacity > 0
ConflictGroups ==
  {g \in {<<imported[i].Date, imported[i].Slot_ID>> : i \in 1..Len(imported)} :
     /\ \E i \in 1..Len(imported) :
          /\ <<imported[i].Date, imported[i].Slot_ID>> = g
          /\ imported[i].Gender = "Men" /\ JsPositive(imported[i].Capacity)
     /\ \E i \in 1..Len(imported) :
          /\ <<imported[i].Date, imported[i].Slot_ID>> = g
          /\ imported[i].Gender = "Women" /\ JsPositive(imported[i].Capacity)}

\* C5: the conflict count a successful Validate reports is the number of
\* (Date, Slot_ID) groups holding at least one Men row with Capacity > 0 and
\* at least one Women row with Capacity > 0; and a valid sheet is committed
\* whatever the count: the message is the preview and imported holds the rows
\* it counts.
C5_ConflictCount ==
  /\ Previewed => /\ lastAlert.conflicts = Cardinality(ConflictGroups)
                  /\ lastAlert.rows = Len(imported)
  /\ (lastAlert.kind \in {"preview", "error"} /\ ValidSheet(excelFile)) => Previewed

\* one conflicting group among rows of several dates
C5_Witness ==
  /\ Previewed /\ lastAlert.conflicts = 1 /\ Len(imported) >= 3
  /\ \E i, j \in 1..Len(imported) : imported[i].Date # imported[j].Date

RECURSIVE SumCapacity(_, _)
SumCapacity(rows, genders) ==
  IF rows = <<>> THEN 0
  ELSE (IF Head(rows).Gender \in genders THEN Head(rows).Capacity ELSE 0)
         + SumCapacity(Tail(rows), genders)

\* C8: total is the sum of Capacity over all rows of imported, men the sum over
\* the rows of Gender "Men", women the sum over the rows of Gender "Women"; a
\* row of any other Gender adds to total alone.
C8_Totals ==
  /\ totals.total = SumCapacity(imported, {imported[i].Gender : i \in 1..Len(imported)})
  /\ totals.men = SumCapacity(imported, {"Men"})
  /\ totals.women = SumCapacity(imported, {"Women"})

-----------------------------------------------------------------------------
(* Properties of buildCSV, read off the text it returns. *)

\* the fields of a CSV text as written, record by record: a comma or a line
\* feed outside double quotes ends a field or a record
RawRecords(text) ==
  LET RECURSIVE lex(_, _, _, _, _)
      lex(i, inq, field, rec, recs) ==
        IF i > Len(text) THEN Append(recs, Append(rec, field))
        ELSE LET c == text[i] IN
             IF c = "\"" THEN lex(i + 1, ~inq, Append(field, c), rec, recs)
             ELSE IF c = "," /\ ~inq THEN lex(i + 1, inq, <<>>, Append(rec, field), recs)
             ELSE IF c = "\n" /\ ~inq THEN lex(i + 1, inq, <<>>, <<>>, Append(recs, Append(rec, field)))
             ELSE lex(i + 1, inq, Append(field, c), rec, recs)
  IN lex(1, FALSE, <<>>, <<>>, <<>>)

QuotesBefore(s, i) == Cardinality({k \in 1..(i - 1) : s[k] = "\""})

\* f is s between double quotes with every double quote of s written twice
IsQuoted(f, s) ==
  /\ Len(f) = Len(s) + QuotesBefore(s, Len(s) + 1) + 2
  /\ f[1] = "\"" /\ f[Len(f)] = "\""
  /\ \A i \in 1..Len(s) :
        /\ f[1 + i + QuotesBefore(s, i)] = s[i]
        /\ s[i] = "\"" => f[2 + i + QuotesBefore(s, i)] = "\""

HasSpecial(s) == \E i \in 1..Len(s) : s[i] = "," \/ s[i] = "\"" \/ s[i] = "\n" \/ s[i] = "\r"

\* the text of the cell of row r under key h: empty for a missing key or null
CellText(r, h) ==
  LET hits == {i \in 1..Len(r) : r[i][1] = h}
  IN  IF hits = {} THEN <<>>
      ELSE LET v == r[CHOOSE i \in hits : TRUE][2]
           IN  IF v.t = "null" THEN <<>> ELSE IF v.t = "num" THEN Decimal(v.n) ELSE v.s

Built == csvOut.done /\ csvRows # <<>>

\* the table has the shape of the input: a header and one record per row,
\* each data record with one field per key of the first row
ShapeKept(recs) ==
  /\ Len(recs) = Len(csvRows) + 1
  /\ \A k \in 2..Len(recs) : Len(recs[k]) = Len(csvRows[1])

\* C6: in the text buildCSV returns, a field is written between double quotes
\* with each of its double quotes doubled if and only if its text holds a
\* comma, a double quote, a line feed or a carriage return; a field with none
\* of them is written exactly as its text.
C6_QuotedIffSpecial ==
  Built =>
    LET recs == RawRecords(csvOut.text) IN
    /\ ShapeKept(recs)
    /\ \A k \in 1..Len(csvRows) : \A j \in 1..Len(csvRows[1]) :
          LET s == CellText(csvRows[k], csvRows[1][j][1])
              f == recs[k + 1][j]
          IN  /\ HasSpecial(s) => IsQuoted(f, s)
              /\ ~HasSpecial(s) => f = s

\* a field holding a carriage return and a double quote has been written
C6_Witness ==
  /\ Built
  /\ \E j \in 1..Len(csvRows[1]) :
        LET s == CellText(csvRows[1], csvRows[1][j][1])
        IN  Len(s) = 3 /\ s[1] = "\r" /\ s[2] = "\"" /\ s[3] = "a"

\* the text a written field stands for
Unquoted(f) ==
  IF Len(f) >= 2 /\ f[1] = "\"" /\ f[Len(f)] = "\""
  THEN LET RECURSIVE undouble(_)
           undouble(i) ==
             IF i >= Len(f) THEN <<>>
             ELSE IF f[i] = "\"" THEN <<"\"">> \o undouble(i + 2)
             ELSE <<f[i]>> \o undouble(i + 1)
       IN undouble(2)
  ELSE f

\* C7: for a non-empty input the first line is the keys of the first row in
\* their order, and every data line has exactly one cell per key of the first
\* row, in that order, holding the text of the row's value under that key:
\* empty for a missing key or null, and nothing for a key the first row does
\* not have; for the empty input the text is empty.
C7_HeaderFromFirstRow ==
  csvOut.done =>
    IF csvRows = <<>> THEN csvOut.text = <<>>
    ELSE LET recs == RawRecords(csvOut.text)
             keys == [j \in 1..Len(csvRows[1]) |-> csvRows[1][j][1]]
         IN  /\ ShapeKept(recs)
             /\ recs[1] = keys
             /\ \A k \in 1..Len(csvRows) : \A j \in 1..Len(keys) :
                   Unquoted(recs[k + 1][j]) = CellText(csvRows[k], keys[j])

\* a later row lacks a key of the first row and holds one the first row lacks
C7_Witness ==
  /\ Built /\ Len(csvRows) >= 2 /\ Len(csvRows[1]) = 2
  /\ \E k \in 2..Len(csvRows) :
        /\ \E j \in 1..2 : \A i \in 1..Len(csvRows[k]) : csvRows[k][i][1] # csvRows[1][j][1]
        /\ \E i \in 1..Len(csvRows[k]) : csvRows[k][i][1] = <<"C">> /\ csvRows[k][i][2] # Null

-----------------------------------------------------------------------------
(* Properties of a session. *)

\* a step in which a Validate call ends in failure: the alert of the missing
\* inputs appears, or a waiting call leaves with the error alert
FailedValidateStep ==
  \/ lastAlert'.kind = "select" /\ lastAlert.kind # "select"
  \/ Len(pending') < Len(pending) /\ lastAlert'.kind = "error"

\* a step of handleValidatePreview: the click or the arrival of a file
ValidateStep ==
  \/ lastAlert'.kind = "select" /\ lastAlert.kind # "select"
  \/ Len(pending') # Len(pending)

\* C9: a failing Validate (missing date or file, missing header, exception
\* while reading or parsing) leaves imported, bookings, appliedDates, fromDate
\* and toDate as they were, and loading is false once it has finished;
\* Validate writes imported on its successful path alone.
C9_FailedValidateKeepsState ==
  [][/\ FailedValidateStep =>
          /\ imported' = imported /\ bookings' = bookings
          /\ appliedDates' = appliedDates
          /\ fromDate' = fromDate /\ toDate' = toDate
          /\ loading' = FALSE
     /\ (ValidateStep /\ imported' # imported) => lastAlert'.kind = "preview"]_vars

\* C10: while a Validate call waits for its file no second call starts, so at
\* most one is waiting at any time, and no other handler writes imported
\* during the wait.
C10_OneParseAtATime ==
  /\ [](Len(pending) <= 1)
  /\ [][(pending # <<>> /\ imported' # imported) => Len(pending') < Len(pending)]_vars

\* a step in which a waiting call leaves that was overtaken: a call started
\* after it completed successfully before it
StaleCompletion ==
  \E i \in 1..Len(pending) :
     /\ overtaken[i]
     /\ pending' = RemoveAt(pending, i)
     /\ overtaken' = RemoveAt(overtaken, i)

\* C11: the result of a stale parse is ignored: a Validate call that completes
\* after a later-started call has completed successfully does not write
\* imported, so the rows stay those of the most recently started successful
\* call.
C11_StaleParseIgnored ==
  [][StaleCompletion => imported' = imported]_vars

\* the expansion of the templates of the chosen file over the selected range:
\* empty while a date or a readable sheet is missing
CurrentExpansion ==
  IF ~throws(excelFile) /\ fromDate # NoDate /\ toDate # NoDate
  THEN expand(norm(excelFile.rows), fromDate, toDate)
  ELSE <<>>

\* C12: imported is derived from the current selection: in every state of a
\* session the rows of imported, if there are any, are the expansion of the
\* templates of the chosen file over the selected [fromDate, toDate], never
\* rows left over from an earlier selection.
C12_ImportedFollowsSelection ==
  imported # <<>> => imported = CurrentExpansion

-----------------------------------------------------------------------------
(* Properties of the normalisation. *)

\* the text of a cell is a numeral
IsNumeral(cell) == cell \in {"0", "1", "2", "3", "5", "10"}

\* a JS number that is not NaN
IsNumeric(x) == x \in Int /\ x # NaN

\* a Validate call has run to its end
Finished == pending = <<>> /\ lastAlert.kind \in {"preview", "error"}

\* C13: a Validate of a sheet that has the required columns does not throw
\* whatever its Capacity cells hold; an empty or non-numeric Capacity cell
\* becomes capacity 0, so every row of imported has a numeric Capacity and
\* the totals are numbers.
C13_MalformedCapacityIsZero ==
  Finished =>
    /\ lastAlert.kind = "preview"
    /\ \A k \in 1..Len(excelFile.rows) :
          ~IsNumeral(excelFile.rows[k].Capacity) => Templates[k].Capacity = 0
    /\ \A k \in 1..Len(imported) : IsNumeric(imported[k].Capacity)
    /\ IsNumeric(totals.total) /\ IsNumeric(totals.men) /\ IsNumeric(totals.women)

\* the same with the non-numeric cells left aside
C13_EmptyCapacityIsZero ==
  (Finished /\ \A k \in 1..Len(excelFile.rows) : excelFile.rows[k].Capacity # "x") =>
    /\ lastAlert.kind = "preview"
    /\ \A k \in 1..Len(excelFile.rows) :
          excelFile.rows[k].Capacity = "" => Templates[k].Capacity = 0
    /\ \A k \in 1..Len(imported) : IsNumeric(imported[k].Capacity)
    /\ IsNumeric(totals.total) /\ IsNumeric(totals.men) /\ IsNumeric(totals.women)

\* a sheet with a non-numeric Capacity cell is previewed without an error
C13_NoThrow == Finished => lastAlert.kind = "preview"

-----------------------------------------------------------------------------
(* Properties of the paging. *)

\* the least n >= 1 with n * PAGE_SIZE >= rowCount: max(1, ceil(rowCount / 20))
PagesFor(rowCount) ==
  CHOOSE n \in 1..(rowCount + 1) :
     /\ n * 20 >= rowCount
     /\ n = 1 \/ (n - 1) * 20 < rowCount

\* C14: in every state the slice shown of the capacities table and the one
\* shown of the bookings table hold at most PAGE_SIZE = 20 rows, and each
\* table's page count is max(1, ceil(rowCount / 20)), so at least 1 even for
\* an empty table.
C14_SliceAndPageCount ==
  /\ PAGE_SIZE = 20
  /\ Len(capRows) <= 20 /\ Len(bookRows) <= 20
  /\ capPages >= 1 /\ bookPages >= 1
  /\ capPages = PagesFor(Len(capacitiesView))
  /\ bookPages = PagesFor(Len(bookings))

\* both tables hold more than one page: the capacities table shows a full
\* page cut out of a longer view, the bookings table its last, partly filled
\* page
C14_Witness ==
  /\ capPages > 1 /\ capPage = 1 /\ Len(capacitiesView) > 20 /\ Len(capRows) = 20
  /\ bookPages > 1 /\ bookPage = bookPages /\ Len(bookRows) \in 1..19

\* an empty table has one page
C14_WitnessEmpty ==
  /\ imported # <<>> /\ capacitiesView = <<>> /\ capPages = 1 /\ capRows = <<>>

\* C15: in every state the current pages are in range:
\* 1 <= capPage <= capPages and 1 <= bookPage <= bookPages.
C15_PagesInRange ==
  /\ 1 <= capPage /\ capPage <= capPages
  /\ 1 <= bookPage /\ bookPage <= bookPages

\* a step that shrinks the page count of a table while it shows a page past
\* the new last one
C15_ShrinkFromLaterPage ==
  \/ capPage > 1 /\ capPages' < capPage
  \/ bookPage > 1 /\ bookPages' < bookPage

\* a filter has cut the capacities table to fewer pages than its unfiltered
\* rows fill and the table shows page 1; the bookings table has been paged to
\* its last page
C15_Witness ==
  /\ filterVars # <<"", "", NoDate>>
  /\ capPages < PagesFor(Len(imported)) /\ capPage = 1
  /\ bookPages > 1 /\ bookPage = bookPages

-----------------------------------------------------------------------------
(* Properties of the applied dates. *)

\* a step of handleImport that shows the alert of a done import after another
\* alert
ImportStep == lastAlert'.kind = "imported" /\ lastAlert.kind # "imported"

\* the calendar days of the selected range
SelectedDates == {d \in fromDate..toDate : fromDate # NoDate /\ toDate # NoDate}

\* appliedDates never loses a date; it changes in a step of Import alone, made
\* with rows in imported and both dates selected, and that step leaves
\* imported and bookings as they were
C16_OnlyImportGrows ==
  [][/\ appliedDates \subseteq appliedDates'
     /\ appliedDates' # appliedDates =>
          /\ lastAlert'.kind = "imported"
          /\ imported # <<>> /\ fromDate # NoDate /\ toDate # NoDate
     /\ lastAlert'.kind \in {"imported", "runfirst"} /\ lastAlert' # lastAlert =>
          /\ imported' = imported /\ bookings' = bookings
          /\ imported = <<>> => appliedDates' = appliedDates]_vars

\* an Import with rows and both dates adds the dates of the selected range
C16_ImportAddsSelectedDates ==
  [][ImportStep => appliedDates' = appliedDates \cup SelectedDates]_vars

\* C16: appliedDates only grows and only Import changes it: an Import with
\* rows in imported and both dates selected adds every date of the selected
\* [fromDate, toDate] and removes none, an Import without rows changes
\* nothing, every other action leaves the set as it was, and Import changes
\* neither imported nor bookings.
C16_AppliedDates == C16_OnlyImportGrows /\ C16_ImportAddsSelectedDates

\* the same for a page that runs in UTC
C16_AppliedDatesInUTC ==
  C16_OnlyImportGrows /\ [][tz = 0 /\ ImportStep => appliedDates' = appliedDates \cup SelectedDates]_vars

====
